---------------------------- MODULE Spec2Model ----------------------------
(***************************************************************************)
(* A model of src/utils/get_parameters.py and src/utils/data_preparation.py *)
(*                                                                         *)
(* The two files are a library of four functions that share no state:      *)
(* get_params, max_score_for_each, get_combinations, balance_impute_data.   *)
(* The state is the last call made: the function called, its arguments,    *)
(* the values of its local variables when it ended, and how it ended (a    *)
(* returned value or a raised exception).  Each action is one whole call.   *)
(*                                                                         *)
(* Python values: a hyperparameter option is written as the text of its    *)
(* literal ("0.1", "None", "l1"); a dict is a function on its set of keys; *)
(* a list is a sequence.                                                   *)
(***************************************************************************)
EXTENDS Integers, Sequences, FiniteSets, TLC

VARIABLES
    op,      \* the function last called ("none" before any call)
    args,    \* its arguments
    locals,  \* its local variables at the point it ended
    ret,     \* [kind |-> "return", value |-> v] or [kind |-> "raise", exc |-> e, ...]
    prev     \* SpecTwoRuns only: the balance_impute_data call made before this one

vars == <<op, args, locals, ret, prev>>

NoValue == [kind |-> "none"]

Range(s) == {s[i] : i \in DOMAIN s}

RECURSIVE SeqSum(_)
SeqSum(s) == IF s = <<>> THEN 0 ELSE Head(s) + SeqSum(Tail(s))

RECURSIVE SeqProd(_)
SeqProd(s) == IF s = <<>> THEN 1 ELSE Head(s) * SeqProd(Tail(s))

(***************************************************************************)
(* get_params (get_parameters.py:34-226)                                   *)
(***************************************************************************)

\* itertools.product over a list of lists: every tuple that takes one option
\* from each list, the first list varying slowest.
RECURSIVE product(_)
product(lists) ==
    IF lists = <<>> THEN << <<>> >>
    ELSE LET head == Head(lists)
             rest == product(Tail(lists))
             m    == Len(rest)
         IN  [i \in 1..(Len(head) * m) |->
                 <<head[((i - 1) \div m) + 1]>> \o rest[((i - 1) % m) + 1]]

\* A faulty variant of get_param_dict: range(len(names) - 1), the last name is lost.
get_param_dict_short(names, params) ==
    [c \in 1..Len(params) |->
        [k \in {names[j] : j \in 1..(Len(names) - 1)} |->
            params[c][CHOOSE j \in 1..(Len(names) - 1) :
                        /\ names[j] = k
                        /\ \A j2 \in 1..(Len(names) - 1) : names[j2] = k => j2 <= j]]]

\* get_param_dict: one dict per tuple, {names[j]: params_comb[j] for j in
\* range(len(names))}; a name that occurs twice keeps its last value.
get_param_dict(names, params) ==
    [c \in 1..Len(params) |->
        [k \in Range(names) |->
            params[c][CHOOSE j \in DOMAIN names :
                        /\ names[j] = k
                        /\ \A j2 \in DOMAIN names : names[j2] = k => j2 <= j]]]

\* The names the match statement has a case for, in the order of the cases.
CaseNames ==
    <<"LogisticRegression", "DecisionTreeClassifier", "SVC", "KNeighborsClassifier",
      "RandomForestClassifier", "GradientBoostingClassifier", "BaggingClassifier",
      "XGBClassifier", "GaussianNB">>

\* The hyperparameter names and the option lists each case declares.
\* np.linspace(0.1, 1, 5, endpoint=True) is 0.1, 0.325, 0.55, 0.775, 1.0.
declared(algoritm) ==
    CASE algoritm = "LogisticRegression" ->
           [names   |-> <<"penalty", "C", "solver", "max_iter", "l1_ratio">>,
            options |-> << <<"l1", "l2", "elasticnet", "None">>,
                           <<"0.1", "0.3", "0.5", "1">>,
                           <<"lbfgs", "liblinear", "newton-cg", "newton-cholesky",
                             "sag", "saga">>,
                           <<"100", "1000", "5000">>,
                           <<"0.1", "0.325", "0.55", "0.775", "1.0">> >>]
      [] algoritm = "DecisionTreeClassifier" ->
           [names   |-> <<"criterion", "splitter", "max_depth", "min_samples_split",
                          "min_samples_leaf", "max_features", "random_state">>,
            options |-> << <<"gini", "entropy", "log_loss">>,
                           <<"best", "random">>,
                           <<"2", "4", "6", "8">>,
                           <<"11", "21", "31">>,
                           <<"3", "5", "7">>,
                           <<"10", "15", "sqrt", "log2">>,
                           <<"123", "None">> >>]
      [] algoritm = "SVC" ->
           [names   |-> <<"C", "kernel", "degree", "gamma", "coef0",
                          "decision_function_shape", "random_state">>,
            options |-> << <<"0.3", "0.5", "1.0", "2.0">>,
                           <<"linear", "poly", "rbf", "sigmoid", "precomputed">>,
                           <<"2", "3", "4">>,
                           <<"scale", "auto">>,
                           <<"0", "0.1", "0.3", "0.5">>,
                           <<"ovo", "ovr">>,
                           <<"123", "None">> >>]
      [] algoritm = "KNeighborsClassifier" ->
           [names   |-> <<"n_neighbors", "weights", "algorithm", "p">>,
            options |-> << <<"5", "7", "10">>,
                           <<"uniform", "distance">>,
                           <<"auto", "ball_tree", "kd_tree", "brute">>,
                           <<"1", "2", "3">> >>]
      [] algoritm = "RandomForestClassifier" ->
           [names   |-> <<"n_estimators", "criterion", "max_features",
                          "min_samples_split", "min_samples_leaf">>,
            options |-> << <<"50", "100", "150">>,
                           <<"gini", "entropy", "log_loss">>,
                           <<"sqrt", "log2", "None">>,
                           <<"2", "4", "6">>,
                           <<"1", "2", "3">> >>]
      [] algoritm = "GradientBoostingClassifier" ->
           [names   |-> <<"loss", "learning_rate", "n_estimators", "subsample",
                          "criterion", "max_features", "min_samples_split",
                          "min_samples_leaf">>,
            options |-> << <<"log_loss", "exponential">>,
                           <<"0.05", "0.1", "0.15">>,
                           <<"50", "100", "150">>,
                           <<"0.3", "0.5", "1">>,
                           <<"friedman_mse", "squared_error">>,
                           <<"sqrt", "log2", "None">>,
                           <<"2", "4", "6">>,
                           <<"1", "2", "3">> >>]
      [] algoritm = "BaggingClassifier" ->
           [names   |-> <<"n_estimators", "oob_score", "bootstrap_features">>,
            options |-> << <<"5", "10", "15", "100">>,
                           <<"True", "False">>,
                           <<"True", "False">> >>]
      [] algoritm = "XGBClassifier" ->
           [names   |-> <<"n_estimators", "learning_rate", "subsample", "max_depth",
                          "max_leaves">>,
            options |-> << <<"50", "100", "150", "200">>,
                           <<"0.1", "0.04", "0.2">>,
                           <<"0.5", "1", "0.3">>,
                           <<"3", "5", "7", "10">>,
                           <<"3", "5", "7", "0">> >>]
      [] algoritm = "GaussianNB" ->
           \* two scalars, not lists: one value each
           [names   |-> <<"priors", "var_smoothing">>,
            options |-> << <<"None">>, <<"1e-9">> >>]

\* The names the ValueError's message lists (get_parameters.py:225-226).
MessageNames ==
    <<"LogisticRegression", "DecisionTreeClassifier", "SVC", "KNeighborsClassifier",
      "GaussianNB", "RandomForestClassifier", "GradientBoostingClassifier",
      "BaggingClassifier", "XGBClassifier">>

\* A faulty variant of get_params_default: the default case returns an empty list.
get_params_default_empty == [kind |-> "return", value |-> <<>>]

\* case _: raise ValueError(...)
get_params_default ==
    [kind |-> "raise", exc |-> "ValueError", listed |-> MessageNames]

\* The match statement: each case builds the product of its lists and returns
\* get_param_dict of it; GaussianNB returns its one dict as written.
get_params(algoritm) ==
    IF algoritm \in Range(CaseNames)
    THEN IF algoritm = "GaussianNB"
         THEN [kind  |-> "return",
               value |-> << [priors |-> "None", var_smoothing |-> "1e-9"] >>]
         ELSE [kind  |-> "return",
               value |-> get_param_dict(declared(algoritm).names,
                                        product(declared(algoritm).options))]
    ELSE get_params_default

\* The default argument None, written as a name no case can match.
NoneArg == "<None>"

\* Arguments that are not one of the nine names: the default, other spellings
\* and the names the performance table uses for the same algorithms.
OtherArgs ==
    {NoneArg, "", "logisticregression", "svc", "SVM", "KNN", "NaiveBayes",
     "XGBoost", "RandomForest", "LogisticRegression ", "GaussianNb"}

CallGetParams ==
    /\ op = "none"
    /\ \E a \in Range(CaseNames) \cup OtherArgs :
        /\ op' = "get_params"
        /\ args' = [algoritm |-> a]
        /\ locals' = NoValue
        /\ ret' = get_params(a)
        /\ prev' = NoValue

(***************************************************************************)
(* The performance table (get_parameters.py:232-362)                       *)
(*                                                                         *)
(* A table is a sequence of rows; a row's index label is its position, as  *)
(* in a table read from a CSV file.  A name that the code parses (the      *)
(* Imputer column, split on "__") is a sequence of lexemes in which every   *)
(* underscore is a lexeme of its own: "SimpleImputer_mode" is              *)
(* <<"SimpleImputer", "_", "mode">>.                                       *)
(***************************************************************************)

\* The longest performance table drawn.
MaxRows == 2

SimpleImputer_mode == <<"SimpleImputer", "_", "mode">>
SimpleImputer_mean == <<"SimpleImputer", "_", "mean">>
KNNImptuer == <<"KNNImptuer">>

\* The two recorded preprocessing variants: variant v scored v.
Variants ==
    << [Score     |-> 1,
        Imputer   |-> SimpleImputer_mode \o <<"_", "_">> \o SimpleImputer_mean,
        Imbalance |-> "SMOTE"],
       [Score     |-> 2,
        Imputer   |-> SimpleImputer_mean \o <<"_", "_">> \o SimpleImputer_mode,
        Imbalance |-> "OriginalData"] >>

TableAlgorithms == {"KNN", "LogisticRegression"}
TableMetrics == {"AUC", "F1"}
TableSets == {"Test", "Train"}

PerfRows ==
    {[Algorithm  |-> a,
      Imputer    |-> Variants[v].Imputer,
      Imbalance  |-> Variants[v].Imbalance,
      Metric     |-> m,
      MainMetric |-> mm,
      Set        |-> s,
      Score      |-> Variants[v].Score] :
        a \in TableAlgorithms, m \in TableMetrics, mm \in TableMetrics,
        s \in TableSets, v \in DOMAIN Variants}

RECURSIVE SeqsUpTo(_, _)
SeqsUpTo(S, n) ==
    IF n = 0 THEN {<<>>}
    ELSE LET shorter == SeqsUpTo(S, n - 1)
         IN  shorter \cup {Append(t, x) : t \in {u \in shorter : Len(u) = n - 1}, x \in S}

PerfTables == SeqsUpTo(PerfRows, MaxRows)

\* The strings the tables hold in the columns a call may group by, in
\* Python's string order.
StrOrder ==
    <<"AUC", "Bagging", "DecisionTree", "F1", "GradientBoosting", "KNN",
      "LogisticRegression", "NaiveBayes", "RandomForest", "SVM", "XGBoost">>

StrRank(s) == CHOOSE i \in DOMAIN StrOrder : StrOrder[i] = s

\* Python's comparison of two tuples of strings of the same length.
RECURSIVE KeyLess(_, _)
KeyLess(k1, k2) ==
    /\ k1 # <<>>
    /\ \/ StrRank(Head(k1)) < StrRank(Head(k2))
       \/ /\ Head(k1) = Head(k2)
          /\ KeyLess(Tail(k1), Tail(k2))

\* The subsequence of s at the increasing positions in idx.
RECURSIVE SelectPositions(_, _)
SelectPositions(s, idx) ==
    IF idx = {} THEN <<>>
    ELSE LET i == CHOOSE x \in idx : \A y \in idx : x <= y
         IN  <<s[i]>> \o SelectPositions(s, idx \ {i})

\* A set of group keys as the list groupby walks: sorted ascending.
RECURSIVE SortedKeys(_)
SortedKeys(K) ==
    IF K = {} THEN <<>>
    ELSE LET k == CHOOSE x \in K : \A y \in K \ {x} : KeyLess(x, y)
         IN  <<k>> \o SortedKeys(K \ {k})

GroupKey(row, by) == [j \in DOMAIN by |-> row[by[j]]]

\* Series.idxmax over the rows at labels: the label of the first row that
\* has the highest Score.
idxmax(df, labels) ==
    CHOOSE i \in labels :
        \A j \in labels : \/ df[j].Score < df[i].Score
                          \/ df[j].Score = df[i].Score /\ i <= j

\* A faulty variant of max_score_for_each: every row that ties for its group's
\* maximum is kept (the rows in table order).
max_score_for_each_ties(df, by, set_) ==
    LET df_set == {i \in DOMAIN df : df[i].Set = set_}
        best   == {i \in df_set :
                     \A j \in df_set :
                        GroupKey(df[j], by) = GroupKey(df[i], by) =>
                            df[j].Score <= df[i].Score}
    IN  SelectPositions(df, best)

\* max_score_for_each: the rows with Set == set_, grouped by the by columns
\* (groups in ascending key order); of each group the row at idxmax of Score;
\* the index is reset.
max_score_for_each(df, by, set_) ==
    LET df_set == {i \in DOMAIN df : df[i].Set = set_}
        keys   == SortedKeys({GroupKey(df[i], by) : i \in df_set})
        group(k) == {i \in df_set : GroupKey(df[i], by) = k}
    IN  [g \in DOMAIN keys |-> df[idxmax(df, group(keys[g]))]]

ByLists == {<<"Algorithm", "Metric">>, <<"Algorithm">>, <<"MainMetric", "Algorithm">>}

CallMaxScoreForEach ==
    /\ op = "none"
    /\ \E df \in PerfTables, by \in ByLists, set_ \in TableSets :
        /\ op' = "max_score_for_each"
        /\ args' = [df |-> df, by |-> by, set_ |-> set_]
        /\ locals' = NoValue
        /\ ret' = [kind |-> "return", value |-> max_score_for_each(df, by, set_)]
        /\ prev' = NoValue

(***************************************************************************)
(* get_combinations (get_parameters.py:265-362)                            *)
(***************************************************************************)

\* A class object, and None.
Class(module, name) == [kind |-> "class", module |-> module, name |-> name]
None == [kind |-> "None", module |-> "builtins", name |-> "None"]

\* An imputer instance: the instance one call of get_combinations makes for a
\* key of imputer_map; a key that occurs twice resolves to the same instance.
KNNImputer == [class |-> "KNNImputer", strategy |-> "n_neighbors=5"]
SimpleImputer(strategy) == [class |-> "SimpleImputer", strategy |-> strategy]

imputer_map ==
    [k \in {KNNImptuer, SimpleImputer_mode, SimpleImputer_mean} |->
        CASE k = KNNImptuer -> KNNImputer
          [] k = SimpleImputer_mode -> SimpleImputer("most_frequent")
          [] k = SimpleImputer_mean -> SimpleImputer("mean")]

algorithm_map ==
    [k \in {"NaiveBayes", "KNN", "DecisionTree", "LogisticRegression", "Bagging",
            "SVM", "RandomForest", "XGBoost", "GradientBoosting"} |->
        CASE k = "NaiveBayes" -> Class("sklearn.naive_bayes", "GaussianNB")
          [] k = "KNN" -> Class("sklearn.neighbors", "KNeighborsClassifier")
          [] k = "DecisionTree" -> Class("sklearn.tree", "DecisionTreeClassifier")
          [] k = "LogisticRegression" -> Class("sklearn.linear_model", "LogisticRegression")
          [] k = "Bagging" -> Class("sklearn.ensemble", "BaggingClassifier")
          [] k = "SVM" -> Class("sklearn.svm", "SVC")
          [] k = "RandomForest" -> Class("sklearn.ensemble", "RandomForestClassifier")
          [] k = "XGBoost" -> Class("xgboost", "XGBClassifier")
          [] k = "GradientBoosting" -> Class("sklearn.ensemble", "GradientBoostingClassifier")]

balancer_map ==
    [k \in {"SMOTE", "MWMOTE", "OriginalData", "ClusterCentroids", "AllKNN", "ADASYN"} |->
        CASE k = "SMOTE" -> Class("imblearn.over_sampling", "SMOTE")
          [] k = "MWMOTE" -> Class("smote_variants", "MWMOTE")
          [] k = "OriginalData" -> None
          [] k = "ClusterCentroids" -> Class("imblearn.under_sampling", "ClusterCentroids")
          [] k = "AllKNN" -> Class("imblearn.under_sampling", "AllKNN")
          [] k = "ADASYN" -> Class("imblearn.over_sampling", "ADASYN")]

\* str.split("__"): the pieces between the occurrences of two underscores in
\* a row, found left to right.
RECURSIVE split(_)
split(s) ==
    LET at == {i \in 1..(Len(s) - 1) : s[i] = "_" /\ s[i + 1] = "_"}
    IN  IF at = {} THEN <<s>>
        ELSE LET i == CHOOSE x \in at : \A y \in at : x <= y
             IN  <<SubSeq(s, 1, i - 1)>> \o split(SubSeq(s, i + 2, Len(s)))

\* [imp[0], imputer_map[imp[0]], imp[1], imputer_map[imp[1]]]
imputer_quadruple(imp) ==
    <<imp[1], imputer_map[imp[1]], imp[2], imputer_map[imp[2]]>>

\* What lines 346-354 make of one row of data: [algorithm, imputer, imbalance].
combination_of(row) ==
    <<algorithm_map[row.Algorithm],
      imputer_quadruple(split(row.Imputer)),
      balancer_map[row.Imbalance]>>

\* Whether lines 349-352 raise on a row: a split with fewer than two pieces
\* (IndexError) or a name that is no key of its map (KeyError).
resolution_error(row) ==
    LET imp == split(row.Imputer)
    IN  IF Len(imp) < 2 THEN "IndexError"
        ELSE IF \/ imp[1] \notin DOMAIN imputer_map
                \/ imp[2] \notin DOMAIN imputer_map
                \/ row.Imbalance \notin DOMAIN balancer_map
                \/ row.Algorithm \notin DOMAIN algorithm_map
             THEN "KeyError"
             ELSE "none"

\* A faulty variant of combinations_dict_of: the keys are the names as the
\* table writes them, the keys of algorithm_map.
combinations_dict_by_table_name(combinations) ==
    [k \in {t \in DOMAIN algorithm_map :
               \E i \in DOMAIN combinations : combinations[i][1] = algorithm_map[t]} |->
        combinations[CHOOSE i \in DOMAIN combinations :
                        /\ combinations[i][1] = algorithm_map[k]
                        /\ \A j \in DOMAIN combinations :
                              combinations[j][1] = algorithm_map[k] => j <= i]]

\* A faulty variant of combinations_dict_of: the first combination of a class stays.
combinations_dict_first(combinations) ==
    [k \in {combinations[i][1].name : i \in DOMAIN combinations} |->
        combinations[CHOOSE i \in DOMAIN combinations :
                        /\ combinations[i][1].name = k
                        /\ \A j \in DOMAIN combinations :
                              combinations[j][1].name = k => i <= j]]

\* {combinations[i][0].__name__: combinations[i] for i in range(len(combinations))}
combinations_dict_of(combinations) ==
    [k \in {combinations[i][1].name : i \in DOMAIN combinations} |->
        combinations[CHOOSE i \in DOMAIN combinations :
                        /\ combinations[i][1].name = k
                        /\ \A j \in DOMAIN combinations :
                              combinations[j][1].name = k => j <= i]]

\* The rows of data at which f holds, in order (a boolean mask and reset_index).
Filter(data, f(_)) == SelectPositions(data, {i \in DOMAIN data : f(data[i])})

\* The whole function: its locals and what it returns.
get_combinations(df, by_features, by_metric, by_set, return_dict) ==
    LET max_scores == max_score_for_each(df, by_features, by_set)
        is_main(row) == row.MainMetric = by_metric
        data == Filter(max_scores, is_main)
        errors == {resolution_error(data[i]) : i \in DOMAIN data} \ {"none"}
    IN  IF errors # {}
        THEN [locals |-> [max_scores |-> max_scores, data |-> data],
              ret    |-> [kind |-> "raise",
                          exc  |-> IF "IndexError" \in errors THEN "IndexError"
                                   ELSE "KeyError"]]
        ELSE LET combinations == [i \in DOMAIN data |-> combination_of(data[i])]
                 combinations_dict == combinations_dict_of(combinations)
             IN  [locals |-> [max_scores |-> max_scores, data |-> data,
                              combinations |-> combinations,
                              combinations_dict |-> combinations_dict],
                  ret    |-> [kind  |-> "return",
                              value |-> IF return_dict THEN combinations_dict
                                        ELSE combinations]]

DefaultBy == <<"Algorithm", "Metric">>

CallGetCombinations ==
    /\ op = "none"
    /\ \E df \in PerfTables, by_metric \in {"AUC"}, by_set \in TableSets,
          return_dict \in BOOLEAN :
        \E r \in {get_combinations(df, DefaultBy, by_metric, by_set, return_dict)} :
            /\ op' = "get_combinations"
            /\ args' = [df |-> df, by_features |-> DefaultBy, by_metric |-> by_metric,
                        by_set |-> by_set, return_dict |-> return_dict]
            /\ locals' = r.locals
            /\ ret' = r.ret
            /\ prev' = NoValue

(***************************************************************************)
(* balance_impute_data (data_preparation.py:26-132)                        *)
(*                                                                         *)
(* A data table is [columns, data]: the column names in order and, for     *)
(* each, its cells.  A column name is a sequence of characters (the code   *)
(* matches a prefix of it).  A cell is a number or NaN.  From imputation   *)
(* on, a number is held in units of 1/Unit, so that a mean over the rows   *)
(* of a table is exact.                                                    *)
(***************************************************************************)

\* The most rows a data table has.
MaxDataRows == 7

AGE == <<"A", "G", "E">>
SEX == <<"S", "E", "X">>
CVD == <<"C", "V", "D">>
RANDID == <<"R", "A", "N", "D", "I", "D">>
DEATH == <<"D", "E", "A", "T", "H">>
TIMECVD == <<"T", "I", "M", "E", "C", "V", "D">>

NaN == [na |-> TRUE, v |-> 0]
Num(v) == [na |-> FALSE, v |-> v]

RECURSIVE GCD(_, _)
GCD(a, b) == IF b = 0 THEN a ELSE GCD(b, a % b)

RECURSIVE LCMUpTo(_)
LCMUpTo(n) == IF n <= 1 THEN 1 ELSE (LCMUpTo(n - 1) * n) \div GCD(LCMUpTo(n - 1), n)

Unit == LCMUpTo(MaxDataRows)

\* re.match('TIME', col): col starts with TIME.
re_match_TIME(col) == Len(col) >= 4 /\ SubSeq(col, 1, 4) = <<"T", "I", "M", "E">>

\* Line 66: the columns that are no TIME column and neither RANDID nor DEATH.
prune(df) ==
    LET keep == {j \in DOMAIN df.columns :
                    /\ ~re_match_TIME(df.columns[j])
                    /\ df.columns[j] \notin {RANDID, DEATH}}
        columns == SelectPositions(df.columns, keep)
    IN  [columns |-> columns, data |-> [c \in Range(columns) |-> df.data[c]]]

\* Series.nunique: the number of distinct values of a column, NaN not counted.
nunique(col) == Cardinality({col[i].v : i \in {j \in DOMAIN col : ~col[j].na}})

CatBelow == 5
NumAbove == 5

\* Line 80: counts['N Uniques'] < 5
is_cat_varaible(n_uniques) == n_uniques < CatBelow

\* Line 81: counts['N Uniques'] > 5
is_num_varaiable(n_uniques) == n_uniques > NumAbove

\* A faulty variant of imputer_roles: the first pair is taken for the categorical
\* imputer and the second for the numerical one.
imputer_roles_cat_first(imputer) ==
    [num_imputer_name |-> imputer[3], num_imputer |-> imputer[4],
     cat_imputer_name |-> imputer[1], cat_imputer |-> imputer[2]]

\* Lines 93-94: num_imputer_name, num_imputer = imputer[0], imputer[1] and
\* cat_imputer_name, cat_imputer = imputer[2], imputer[3].
imputer_roles(imputer) ==
    [num_imputer_name |-> imputer[1], num_imputer |-> imputer[2],
     cat_imputer_name |-> imputer[3], cat_imputer |-> imputer[4]]

Present(col) == {i \in DOMAIN col : ~col[i].na}

\* SimpleImputer's statistic of a column, in units of 1/Unit: the mean of
\* the values present, or the smallest of the most frequent ones.
statistic(strategy, col) ==
    LET here == Present(col)
        count(v) == Cardinality({i \in here : col[i].v = v})
    IN  IF strategy = "mean"
        THEN (Unit * SeqSum([i \in DOMAIN col |-> IF col[i].na THEN 0 ELSE col[i].v]))
                \div Cardinality(here)
        ELSE Unit * (CHOOSE v \in {col[i].v : i \in here} :
                        \A w \in {col[i].v : i \in here} :
                            \/ count(w) < count(v)
                            \/ count(w) = count(v) /\ v <= w)

\* Whether imputer.fit_transform raises on the columns cols of a table, or
\* returns an array that cannot be written back: no column at all (sklearn
\* wants one feature at least) or a column with no value (it is dropped).
fit_transform_fails(df, cols) ==
    \/ cols = <<>>
    \/ \E j \in DOMAIN cols : Present(df.data[cols[j]]) = {}

\* imputer.fit_transform on one column: every NaN becomes the statistic.
fit_transform(imputer, col) ==
    [i \in DOMAIN col |->
        IF col[i].na THEN Num(statistic(imputer.strategy, col))
        ELSE Num(Unit * col[i].v)]

\* A column no imputer is fitted on goes into X as it is.
as_float(col) == [i \in DOMAIN col |-> IF col[i].na THEN NaN ELSE Num(Unit * col[i].v)]

HasNaN(X) == \E i \in DOMAIN X : \E j \in DOMAIN X[i] : X[i][j].na

\* An over-sampler's fit_resample: rows of the smaller class are added after
\* the table until the classes are level (a synthetic row is taken at an
\* end point of its interpolation, a copy of a row of the smaller class).
over_sample(X, y) ==
    LET ones   == {i \in DOMAIN y : y[i] = 1}
        zeros  == {i \in DOMAIN y : y[i] # 1}
        minor  == IF Cardinality(ones) <= Cardinality(zeros) THEN ones ELSE zeros
        need   == Cardinality(DOMAIN y \ minor) - Cardinality(minor)
        donors == SelectPositions([i \in DOMAIN y |-> i], minor)
        added  == [k \in 1..need |-> donors[((k - 1) % Len(donors)) + 1]]
    IN  [X |-> X \o [k \in 1..need |-> X[added[k]]],
         y |-> y \o [k \in 1..need |-> y[added[k]]]]

\* An under-sampler's fit_resample: of the larger class as many rows stay as
\* the smaller class has.
under_sample(X, y) ==
    LET ones   == {i \in DOMAIN y : y[i] = 1}
        zeros  == {i \in DOMAIN y : y[i] # 1}
        minor  == IF Cardinality(ones) <= Cardinality(zeros) THEN ones ELSE zeros
        major  == SelectPositions([i \in DOMAIN y |-> i], DOMAIN y \ minor)
        keep   == minor \cup {major[k] : k \in 1..Cardinality(minor)}
    IN  [X |-> SelectPositions(X, keep), y |-> SelectPositions(y, keep)]

\* The balancer argument is None, an object that is no class (it has no
\* __name__), or a class.  What a class does when it is instantiated and when
\* fit_resample is called is the library's: `library` says which of the
\* outcomes happens in this call.
BalancerObject == [kind |-> "object", module |-> "imblearn.over_sampling", name |-> "SMOTE"]

LibraryOutcomes == {"balancer() raises", "fit_resample raises", "fit_resample returns"}

\* fit_resample raises on a NaN and on a target of one class, whatever else
\* the library does.
resample_raises(balancer, library, X, y) ==
    \/ library # "fit_resample returns"
    \/ HasNaN(X)
    \/ Cardinality(Range(y)) < 2

fit_resample(balancer, X, y) ==
    IF balancer.module = "imblearn.under_sampling" THEN under_sample(X, y)
    ELSE over_sample(X, y)

\* A faulty variant of balance: the except branch keeps the name read before the
\* failure.
balance_keeps_name(balancer, library, X, y) ==
    IF balancer.kind # "class"
    THEN [X |-> X, y |-> y, balancer_name |-> "OriginalData"]
    ELSE IF resample_raises(balancer, library, X, y)
         THEN [X |-> X, y |-> y, balancer_name |-> balancer.name]
         ELSE [X |-> fit_resample(balancer, X, y).X,
               y |-> fit_resample(balancer, X, y).y,
               balancer_name |-> balancer.name]

\* Lines 109-114: try: balancer_name = balancer.__name__; balancer =
\* balancer(); X, y = balancer.fit_resample(X, y); except: balancer_name =
\* 'OriginalData'.  X and y are assigned only when fit_resample has returned.
balance(balancer, library, X, y) ==
    IF balancer.kind # "class"
    THEN [X |-> X, y |-> y, balancer_name |-> "OriginalData"]
    ELSE IF resample_raises(balancer, library, X, y)
         THEN [X |-> X, y |-> y, balancer_name |-> "OriginalData"]
         ELSE [X |-> fit_resample(balancer, X, y).X,
               y |-> fit_resample(balancer, X, y).y,
               balancer_name |-> balancer.name]

\* numpy.random.RandomState(123).permutation(n) + 1 for n = 1..16: the order
\* in which train_test_split(random_state=123) takes the rows.
RandomState123 ==
    << <<1>>,
       <<2, 1>>,
       <<1, 2, 3>>,
       <<4, 1, 2, 3>>,
       <<2, 4, 5, 1, 3>>,
       <<2, 4, 5, 1, 3, 6>>,
       <<2, 4, 5, 1, 3, 6, 7>>,
       <<1, 2, 4, 8, 5, 3, 6, 7>>,
       <<8, 1, 6, 7, 4, 2, 9, 5, 3>>,
       <<5, 1, 8, 6, 9, 4, 2, 7, 10, 3>>,
       <<1, 5, 6, 8, 9, 10, 4, 2, 7, 11, 3>>,
       <<6, 1, 5, 10, 9, 8, 11, 4, 2, 7, 12, 3>>,
       <<8, 11, 5, 1, 6, 10, 9, 12, 4, 2, 7, 13, 3>>,
       <<8, 11, 5, 1, 6, 10, 9, 12, 4, 2, 7, 13, 3, 14>>,
       <<8, 11, 5, 1, 6, 10, 9, 12, 4, 2, 7, 13, 3, 14, 15>>,
       <<8, 11, 5, 1, 6, 10, 9, 12, 4, 2, 7, 16, 13, 3, 14, 15>> >>

\* A faulty variant of train_test_split: the last row of the order is in neither
\* part.
train_test_split_drops(X, y, test_size) ==
    LET n       == Len(X)
        n_test  == (test_size * n + 99) \div 100
        n_train == n - n_test
        order   == RandomState123[n]
    IN  [failed  |-> n_train <= 1,
         test    |-> [k \in 1..n_test |-> order[k]],
         train   |-> [k \in 1..(n_train - 1) |-> order[n_test + k]]]

\* train_test_split(X, y, random_state=123, test_size=test_size), test_size
\* in hundredths: n_test = ceil(test_size * n) rows, the first of the order,
\* are the test part and the other n_train rows the train part; an empty
\* train part is a ValueError.  The parts are given as row labels.
train_test_split(X, y, test_size) ==
    LET n       == Len(X)
        n_test  == (test_size * n + 99) \div 100
        n_train == n - n_test
        order   == RandomState123[n]
    IN  [failed  |-> n_train = 0,
         test    |-> [k \in 1..n_test |-> order[k]],
         train   |-> [k \in 1..n_train |-> order[n_test + k]]]

\* A faulty variant of scaler_fit_input: the scaler is fitted on every row.
scaler_fit_input_all(X_train, X_test) == X_train \o X_test

\* Line 123: scaler.fit(X_train)
scaler_fit_input(X_train, X_test) == X_train

\* StandardScaler.fit: per column, over the values present, their number,
\* sum and sum of squares.  mean_ is sum / count, var_ is
\* (count * sumsq - sum^2) / count^2, and scale_ is sqrt(var_), or 1 where
\* var_ is 0.
StandardScaler_fit(X) ==
    [j \in DOMAIN X[1] |->
        LET here == {i \in DOMAIN X : ~X[i][j].na}
        IN  [count |-> Cardinality(here),
             sum   |-> SeqSum([i \in DOMAIN X |-> IF X[i][j].na THEN 0 ELSE X[i][j].v]),
             sumsq |-> SeqSum([i \in DOMAIN X |->
                                  IF X[i][j].na THEN 0 ELSE X[i][j].v * X[i][j].v])]]

\* scaler.transform: (x - mean_) / scale_, written as the pair num, den2 that
\* stands for num / sqrt(den2); NaN stays NaN, and so does every value of a
\* column the scaler saw no value of.
StandardScaler_transform(scaler, X) ==
    [i \in DOMAIN X |->
        [j \in DOMAIN X[i] |->
            LET f  == scaler[j]
                v2 == f.count * f.sumsq - f.sum * f.sum
            IN  IF X[i][j].na \/ f.count = 0
                THEN [na |-> TRUE, num |-> 0, den2 |-> 0]
                ELSE [na   |-> FALSE,
                      num  |-> f.count * X[i][j].v - f.sum,
                      den2 |-> IF v2 = 0 THEN f.count * f.count ELSE v2]]]

Raise(exc, at, locs) ==
    [locals |-> locs, ret |-> [kind |-> "raise", exc |-> exc, at |-> at]]

\* The one element of a set of one element.  {F(x) : x \in {e}} is F(e) with
\* e evaluated once.
Only(S) == CHOOSE x \in S : TRUE

\* Lines 71-81: the features (the columns but the target), the number of
\* distinct values of each, and the two lists of names.
classify(df, target) ==
    Only({ Only({ [features |-> features,
                   counts   |-> counts,
                   cat_varaibles |->
                       SelectPositions(features, {j \in DOMAIN features :
                                                     is_cat_varaible(counts[features[j]])}),
                   num_varaiables |->
                       SelectPositions(features, {j \in DOMAIN features :
                                                     is_num_varaiable(counts[features[j]])})] :
                  counts \in {[f \in Range(features) |-> nunique(df.data[f])]} }) :
           features \in {SelectPositions(df.columns,
                                         {j \in DOMAIN df.columns : df.columns[j] # target})} })

\* Lines 85-104: ddf is df with the cat_varaibles columns replaced by
\* cat_imputer.fit_transform of them and the num_varaiables columns by
\* num_imputer.fit_transform of them; X = ddf[features].values and
\* y = ddf[target].values.
impute(df, c, roles, target) ==
    Only({ [X |-> [i \in DOMAIN df.data[target] |->
                      [j \in DOMAIN c.features |-> ddf[c.features[j]][i]]],
            y |-> [i \in DOMAIN df.data[target] |-> df.data[target][i].v]] :
           ddf \in {[f \in Range(c.features) |->
                       IF f \in Range(c.cat_varaibles)
                       THEN fit_transform(roles.cat_imputer, df.data[f])
                       ELSE IF f \in Range(c.num_varaiables)
                       THEN fit_transform(roles.num_imputer, df.data[f])
                       ELSE as_float(df.data[f])]} })

\* The locals up to the split.
locals_to_split(df, c, roles, imputed, balanced) ==
    [df |-> df, features |-> c.features, counts |-> c.counts,
     cat_varaibles |-> c.cat_varaibles, num_varaiables |-> c.num_varaiables,
     num_imputer |-> roles.num_imputer, cat_imputer |-> roles.cat_imputer,
     fitted |-> [cat |-> [imputer |-> roles.cat_imputer, on |-> c.cat_varaibles],
                 num |-> [imputer |-> roles.num_imputer, on |-> c.num_varaiables]],
     imputed_X |-> imputed.X, imputed_y |-> imputed.y,
     X |-> balanced.X, y |-> balanced.y,
     balancer_name |-> balanced.balancer_name]

\* Lines 121-132: the scaler is fitted, both parts are transformed with it,
\* and the seven values are returned.
scale_and_return(to_split, roles, balanced, parts, X_train, X_test) ==
    Only({ [locals |-> [before_split |-> to_split,
                        train |-> parts.train, test |-> parts.test,
                        split_X_train |-> X_train, split_X_test |-> X_test,
                        scaler |-> scaler],
            ret |-> [kind  |-> "return",
                     value |-> [X_train |-> StandardScaler_transform(scaler, X_train),
                                X_test  |-> StandardScaler_transform(scaler, X_test),
                                y_train |-> [k \in DOMAIN parts.train |->
                                                balanced.y[parts.train[k]]],
                                y_test  |-> [k \in DOMAIN parts.test |->
                                                balanced.y[parts.test[k]]],
                                cat_imputer_name |-> roles.cat_imputer_name,
                                num_imputer_name |-> roles.num_imputer_name,
                                balancer_name |-> balanced.balancer_name]]] :
           scaler \in {StandardScaler_fit(scaler_fit_input(X_train, X_test))} })

\* Lines 107-118: the balancing and the split.
balance_and_split(balancer, library, df, c, roles, imputed, test_size) ==
    Only({ Only({ IF parts.failed
                  THEN Raise("ValueError", "train_test_split",
                             [before_split |->
                                 locals_to_split(df, c, roles, imputed, balanced)])
                  ELSE Only({ scale_and_return(to_split, roles, balanced, parts,
                                               X_train, X_test) :
                              to_split \in {locals_to_split(df, c, roles, imputed, balanced)},
                              X_train \in {[k \in DOMAIN parts.train |->
                                              balanced.X[parts.train[k]]]},
                              X_test \in {[k \in DOMAIN parts.test |->
                                              balanced.X[parts.test[k]]]} }) :
                  parts \in {train_test_split(balanced.X, balanced.y, test_size)} }) :
           balanced \in {balance(balancer, library, imputed.X, imputed.y)} })

\* Lines 71-104, on the pruned table.
classify_and_impute(balancer, library, imputer, df, test_size, target) ==
    IF target \notin Range(df.columns)
    THEN Raise("ValueError", "features.remove(target)", [df |-> df])
    ELSE Only({ IF fit_transform_fails(df, c.cat_varaibles)
                THEN Raise("ValueError", "cat_imputer.fit_transform(x_cat)",
                           [df |-> df, classified |-> c])
                ELSE IF fit_transform_fails(df, c.num_varaiables)
                THEN Raise("ValueError", "num_imputer.fit_transform(x_num)",
                           [df |-> df, classified |-> c])
                ELSE Only({ balance_and_split(balancer, library, df, c, roles, imputed,
                                              test_size) :
                            imputed \in {impute(df, c, roles, target)} }) :
                c \in {classify(df, target)}, roles \in {imputer_roles(imputer)} })

\* The whole function: its locals and what it returns or raises.
balance_impute_data(balancer, library, imputer, df0, test_size, target) ==
    Only({ classify_and_impute(balancer, library, imputer, df, test_size, target) :
           df \in {prune(df0)} })

\* The data tables drawn.  A column of shape <<m, p>> holds (i - 1) % m in
\* row i and NaN in row p (p = 0: no NaN); the target is 1 in rows 1, 4, 7.
Column(n, shape) ==
    [i \in 1..n |-> IF i = shape[2] THEN NaN ELSE Num((i - 1) % shape[1])]

Shapes == {2, 5, MaxDataRows} \X {0, 1, 2}

TargetColumn(n) == [i \in 1..n |-> Num(IF i % 3 = 1 THEN 1 ELSE 0)]

Layouts ==
    [plain      |-> <<SEX, AGE, CVD>>,
     framingham |-> <<RANDID, SEX, AGE, CVD, TIMECVD, DEATH>>,
     no_target  |-> <<SEX, AGE>>]

DataTable(n, layout, sex, age) ==
    [columns |-> Layouts[layout],
     data    |-> [c \in Range(Layouts[layout]) |->
                    CASE c = SEX -> Column(n, sex)
                      [] c = AGE -> Column(n, age)
                      [] c = CVD -> TargetColumn(n)
                      [] OTHER   -> Column(n, <<MaxDataRows, 0>>)]]

\* The imputer argument: the lists get_combinations builds.
ImputerArgs == {imputer_quadruple(split(Variants[v].Imputer)) : v \in DOMAIN Variants}

\* test_size in hundredths: the default .2, and .5.
TestSizes == {20, 50}

\* The balancer argument with what the library does in the call.
BalancerCases ==
    {<<None, "fit_resample returns">>, <<BalancerObject, "fit_resample returns">>,
     <<balancer_map["AllKNN"], "fit_resample returns">>}
    \cup {<<balancer_map["SMOTE"], l>> : l \in LibraryOutcomes}

CallBalanceImputeData ==
    /\ op = "none"
    /\ \E n \in 1..MaxDataRows, layout \in DOMAIN Layouts, sex \in Shapes, age \in Shapes,
          b \in BalancerCases, imputer \in ImputerArgs, test_size \in TestSizes :
        \E df \in {DataTable(n, layout, sex, age)} :
        \E r \in {balance_impute_data(b[1], b[2], imputer, df, test_size, CVD)} :
            /\ op' = "balance_impute_data"
            /\ args' = [balancer |-> b[1], library |-> b[2], imputer |-> imputer,
                        df |-> df, test_size |-> test_size, target |-> CVD]
            /\ locals' = r.locals
            /\ ret' = r.ret
            /\ prev' = NoValue

(***************************************************************************)
(* prepare_for_algorithm (data_preparation.py:138-178)                     *)
(***************************************************************************)

\* The default test_size of balance_impute_data, .2, in hundredths.
DefaultTestSize == 20

\* The whole function: get_combinations(..., return_dict=True), the entry of
\* `algorithm`, and balance_impute_data on its imputer and balancer.
prepare_for_algorithm(algorithm, library, df, performances_df, by_features, by_metric, by_set) ==
    Only({ IF c.ret.kind = "raise"
           THEN [locals |-> [combinations |-> NoValue], ret |-> c.ret]
           ELSE IF algorithm \notin DOMAIN c.ret.value
           THEN [locals |-> [combinations |-> c.ret.value],
                 ret    |-> [kind |-> "raise", exc |-> "KeyError",
                             at |-> "combinations[algorithm]"]]
           ELSE Only({ [locals |-> [combinations |-> c.ret.value,
                                    combination |-> c.ret.value[algorithm],
                                    balance_impute_data |-> r.locals],
                        ret    |-> r.ret] :
                       r \in {balance_impute_data(c.ret.value[algorithm][3], library,
                                                  c.ret.value[algorithm][2], df,
                                                  DefaultTestSize, CVD)} }) :
           c \in {get_combinations(performances_df, by_features, by_metric, by_set, TRUE)} })

\* The performance tables prepare_for_algorithm is called with: rows of the
\* default set only.
PrepareTables == {t \in PerfTables : \A i \in DOMAIN t : t[i].Set = "Test"}

CallPrepareForAlgorithm ==
    /\ op = "none"
    /\ \E algorithm \in {"KNN", "KNeighborsClassifier", "LogisticRegression"},
          performances_df \in PrepareTables,
          age \in {<<MaxDataRows, 0>>, <<MaxDataRows, 2>>},
          library \in {"fit_resample raises", "fit_resample returns"} :
        \E df \in {DataTable(MaxDataRows, "plain", <<2, 1>>, age)} :
        \E r \in {prepare_for_algorithm(algorithm, library, df, performances_df,
                                        DefaultBy, "AUC", "Test")} :
            /\ op' = "prepare_for_algorithm"
            /\ args' = [algorithm |-> algorithm, library |-> library, df |-> df,
                        performances_df |-> performances_df, by_features |-> DefaultBy,
                        by_metric |-> "AUC", by_set |-> "Test"]
            /\ locals' = r.locals
            /\ ret' = r.ret
            /\ prev' = NoValue

\* The caller takes the result; the library keeps nothing of the call.
Return ==
    /\ op # "none"
    /\ op' = "none"
    /\ args' = NoValue
    /\ locals' = NoValue
    /\ ret' = NoValue
    /\ prev' = NoValue

Init ==
    /\ op = "none"
    /\ args = NoValue
    /\ locals = NoValue
    /\ ret = NoValue
    /\ prev = NoValue

Next ==
    \/ CallGetParams
    \/ CallMaxScoreForEach
    \/ CallGetCombinations
    \/ CallBalanceImputeData
    \/ CallPrepareForAlgorithm
    \/ Return

Spec == Init /\ [][Next]_vars

(***************************************************************************)
(* Two calls of balance_impute_data in a row, the table of the second      *)
(* chosen freely; prev keeps the first call.                               *)
(***************************************************************************)
FirstRun ==
    /\ op = "none"
    /\ \E sex \in Shapes, age \in Shapes, imputer \in ImputerArgs :
        \E df \in {DataTable(MaxDataRows, "plain", sex, age)} :
        \E r \in {balance_impute_data(None, "fit_resample returns", imputer, df,
                                      DefaultTestSize, CVD)} :
            /\ op' = "balance_impute_data"
            /\ args' = [balancer |-> None, library |-> "fit_resample returns",
                        imputer |-> imputer, df |-> df,
                        test_size |-> DefaultTestSize, target |-> CVD]
            /\ locals' = r.locals
            /\ ret' = r.ret
            /\ prev' = NoValue

SecondRun ==
    /\ op = "balance_impute_data"
    /\ prev = NoValue
    /\ ret.kind = "return"
    /\ \E sex \in Shapes, age \in Shapes :
        \E df \in {DataTable(MaxDataRows, "plain", sex, age)} :
        \E r \in {balance_impute_data(None, "fit_resample returns", args.imputer, df,
                                      DefaultTestSize, CVD)} :
            /\ op' = "balance_impute_data"
            /\ args' = [args EXCEPT !.df = df]
            /\ locals' = r.locals
            /\ ret' = r.ret
            /\ prev' = [kind |-> "call", args |-> args, locals |-> locals, ret |-> ret]

NextTwoRuns ==
    \/ FirstRun
    \/ SecondRun

SpecTwoRuns == Init /\ [][NextTwoRuns]_vars

(***************************************************************************)
(* prepare_for_algorithm called with every name an algorithm goes by: the  *)
(* names of the Algorithm column (the keys of algorithm_map) and the       *)
(* __name__ of the classes they resolve to.  The table holds rows of all   *)
(* nine algorithms.                                                        *)
(***************************************************************************)
ClassNames == {algorithm_map[k].name : k \in DOMAIN algorithm_map}

AlgorithmArgs == DOMAIN algorithm_map \cup ClassNames

NamedRows ==
    {[Algorithm  |-> a,
      Imputer    |-> Variants[v].Imputer,
      Imbalance  |-> Variants[v].Imbalance,
      Metric     |-> "AUC",
      MainMetric |-> IF v = 1 THEN "AUC" ELSE "F1",
      Set        |-> "Test",
      Score      |-> Variants[v].Score] :
        a \in DOMAIN algorithm_map, v \in DOMAIN Variants}

NamedTables == SeqsUpTo(NamedRows, MaxRows)

CallPrepareForNamedAlgorithm ==
    /\ op = "none"
    /\ \E algorithm \in AlgorithmArgs, performances_df \in NamedTables :
        \E df \in {DataTable(MaxDataRows, "plain", <<2, 1>>, <<MaxDataRows, 0>>)} :
        \E r \in {prepare_for_algorithm(algorithm, "fit_resample returns", df,
                                        performances_df, DefaultBy, "AUC", "Test")} :
            /\ op' = "prepare_for_algorithm"
            /\ args' = [algorithm |-> algorithm, library |-> "fit_resample returns",
                        df |-> df, performances_df |-> performances_df,
                        by_features |-> DefaultBy, by_metric |-> "AUC", by_set |-> "Test"]
            /\ locals' = r.locals
            /\ ret' = r.ret
            /\ prev' = NoValue

NextPrepare ==
    \/ CallPrepareForNamedAlgorithm
    \/ Return

SpecPrepare == Init /\ [][NextPrepare]_vars

(***************************************************************************)
(* What a call of balance_impute_data got to.                              *)
(***************************************************************************)
IsPrepared == op = "balance_impute_data" /\ ret.kind = "return"

\* The features were classified: the target was there.
IsClassified ==
    /\ op = "balance_impute_data"
    /\ (ret.kind = "raise" => ret.at # "features.remove(target)")

Classified ==
    IF ret.kind = "raise" /\ ret.at # "train_test_split" THEN locals.classified
    ELSE [features |-> locals.before_split.features,
          counts |-> locals.before_split.counts,
          cat_varaibles |-> locals.before_split.cat_varaibles,
          num_varaiables |-> locals.before_split.num_varaiables]

\* Both imputers were fitted and the table was balanced.
IsBalanced ==
    /\ op = "balance_impute_data"
    /\ (ret.kind = "raise" => ret.at = "train_test_split")

InputRows == Len(args.df.data[CVD])

(***************************************************************************)
(* C1: every feature column (every column left after pruning but the       *)
(* target) is in exactly one of the two lists, categorical when it has     *)
(* fewer than 5 distinct values and numerical otherwise, a column of       *)
(* exactly 5 distinct values included.  The code leaves such a column in   *)
(* neither list.                                                           *)
(***************************************************************************)
C1_EveryFeatureIsClassified ==
    IsClassified =>
        \A f \in Range(Classified.features) :
            /\ (f \in Range(Classified.cat_varaibles)) # (f \in Range(Classified.num_varaiables))
            /\ (f \in Range(Classified.cat_varaibles)) <=> (Classified.counts[f] < 5)

(***************************************************************************)
(* C2 as claimed: for a row whose Imputer string is 'C__N', the instance   *)
(* resolved from C is the one fitted on the categorical features and the   *)
(* instance resolved from N the one fitted on the numerical features, and  *)
(* the returned cat_imputer_name is C and num_imputer_name is N.           *)
(***************************************************************************)
C2_FirstNameIsCategorical ==
    (op = "prepare_for_algorithm" /\ ret.kind = "return") =>
        \A i \in DOMAIN args.performances_df :
            combination_of(args.performances_df[i]) = locals.combination =>
                LET C == split(args.performances_df[i].Imputer)[1]
                    N == split(args.performances_df[i].Imputer)[2]
                    fitted == locals.balance_impute_data.before_split.fitted
                IN  /\ fitted.cat.imputer = imputer_map[C]
                    /\ fitted.num.imputer = imputer_map[N]
                    /\ ret.value.cat_imputer_name = C
                    /\ ret.value.num_imputer_name = N

(***************************************************************************)
(* C2 amended: for a row whose Imputer string is 'A__B', the combination   *)
(* built from it holds [A, instance of A, B, instance of B], and           *)
(* balance_impute_data takes the first pair for the numerical imputer and  *)
(* the second for the categorical one: the instance resolved from A is     *)
(* fitted on the numerical features and the instance resolved from B on    *)
(* the categorical features, the returned num_imputer_name is A and the    *)
(* returned cat_imputer_name is B.                                         *)
(***************************************************************************)
C2_FirstNameIsNumerical ==
    (op = "prepare_for_algorithm" /\ ret.kind = "return") =>
        \A i \in DOMAIN args.performances_df :
            combination_of(args.performances_df[i]) = locals.combination =>
                LET A == split(args.performances_df[i].Imputer)[1]
                    B == split(args.performances_df[i].Imputer)[2]
                    before == locals.balance_impute_data.before_split
                IN  /\ locals.combination[2] = <<A, imputer_map[A], B, imputer_map[B]>>
                    /\ before.fitted.num.imputer = imputer_map[A]
                    /\ before.fitted.num.on = before.num_varaiables
                    /\ before.fitted.cat.imputer = imputer_map[B]
                    /\ before.fitted.cat.on = before.cat_varaibles
                    /\ ret.value.num_imputer_name = A
                    /\ ret.value.cat_imputer_name = B

\* A table row with two different imputer names was resolved and the data
\* were prepared with it.
C2_Witness ==
    /\ op = "prepare_for_algorithm"
    /\ ret.kind = "return"
    /\ \E i \in DOMAIN args.performances_df :
        /\ combination_of(args.performances_df[i]) = locals.combination
        /\ split(args.performances_df[i].Imputer)[1] = SimpleImputer_mean
        /\ split(args.performances_df[i].Imputer)[2] = SimpleImputer_mode
    /\ locals.balance_impute_data.before_split.num_varaiables = <<AGE>>
    /\ locals.balance_impute_data.before_split.cat_varaibles = <<SEX>>

(***************************************************************************)
(* C3 as claimed: with the default by_features, for each algorithm A that  *)
(* has a row with Set == by_set and MainMetric == by_metric, the result    *)
(* holds a combination for A resolved from a row whose Score is the        *)
(* maximum over the rows with Algorithm == A, MainMetric == by_metric and  *)
(* Set == by_set.                                                          *)
(***************************************************************************)
C3_BestRowPerAlgorithm ==
    (op = "get_combinations" /\ args.by_features = DefaultBy) =>
        LET df == args.df
            rows(a) == {i \in DOMAIN df : /\ df[i].Algorithm = a
                                          /\ df[i].MainMetric = args.by_metric
                                          /\ df[i].Set = args.by_set}
        IN  /\ ret.kind = "return"
            /\ \A a \in TableAlgorithms :
                 rows(a) # {} =>
                    \E c \in DOMAIN locals.combinations, i \in rows(a) :
                        /\ \A j \in rows(a) : df[j].Score <= df[i].Score
                        /\ locals.combinations[c] = combination_of(df[i])

\* The first row of group k (a value of the by columns) that has the group's
\* highest Score, among the rows of the set.
BestOfGroup(df, by, set_, k) ==
    CHOOSE i \in DOMAIN df :
        /\ df[i].Set = set_ /\ GroupKey(df[i], by) = k
        /\ \A j \in DOMAIN df :
              (df[j].Set = set_ /\ GroupKey(df[j], by) = k) =>
                 \/ df[j].Score < df[i].Score
                 \/ df[j].Score = df[i].Score /\ i <= j

(***************************************************************************)
(* C3, what the code returns: with the default by_features, one            *)
(* combination for each (Algorithm, Metric) group of the rows with         *)
(* Set == by_set whose best row (the first row with the maximum Score over *)
(* the rows with that Algorithm, that Metric and Set == by_set) has        *)
(* MainMetric == by_metric, resolved from that row, and no other           *)
(* combination; the combinations are in ascending order of (Algorithm,     *)
(* Metric).  An algorithm whose groups' best rows all have another         *)
(* MainMetric gets no combination.                                         *)
(***************************************************************************)
C3_BestRowPerGroup ==
    (op = "get_combinations" /\ args.by_features = DefaultBy) =>
        LET df     == args.df
            groups == {GroupKey(df[i], DefaultBy) :
                          i \in {j \in DOMAIN df : df[j].Set = args.by_set}}
            best(k) == BestOfGroup(df, DefaultBy, args.by_set, k)
            kept   == {k \in groups : df[best(k)].MainMetric = args.by_metric}
        IN  /\ ret.kind = "return"
            /\ Len(locals.combinations) = Cardinality(kept)
            /\ \A k \in kept :
                 \E c \in DOMAIN locals.combinations :
                    /\ locals.data[c] = df[best(k)]
                    /\ locals.combinations[c] = combination_of(df[best(k)])
            /\ \A c1, c2 \in DOMAIN locals.combinations :
                 c1 < c2 => KeyLess(GroupKey(locals.data[c1], DefaultBy),
                                    GroupKey(locals.data[c2], DefaultBy))

\* An algorithm has a row of the set with the main metric, and its group's
\* best row has another main metric: the algorithm gets no combination.
C3_Witness ==
    /\ op = "get_combinations"
    /\ args.by_features = DefaultBy
    /\ Len(args.df) = 2
    /\ args.df[1].Algorithm = args.df[2].Algorithm
    /\ args.df[1].Metric = args.df[2].Metric
    /\ args.df[1].Set = args.by_set
    /\ args.df[2].Set = args.by_set
    /\ args.df[1].MainMetric # args.by_metric
    /\ args.df[2].MainMetric = args.by_metric
    /\ args.df[1].Score > args.df[2].Score
    /\ locals.combinations = <<>>

(***************************************************************************)
(* C4: when the balancer is None, or reading its __name__, instantiating   *)
(* it or calling fit_resample raises, no error of the balancing reaches    *)
(* the caller, the X and y given to train_test_split are the imputed data, *)
(* no row added, removed or changed, and the returned balancer_name is     *)
(* 'OriginalData'.                                                         *)
(***************************************************************************)
C4_FallbackKeepsImputedData ==
    (/\ IsBalanced
     /\ \/ args.balancer.kind # "class"
        \/ resample_raises(args.balancer, args.library,
                           locals.before_split.imputed_X, locals.before_split.imputed_y)) =>
        /\ locals.before_split.X = locals.before_split.imputed_X
        /\ locals.before_split.y = locals.before_split.imputed_y
        /\ locals.before_split.balancer_name = "OriginalData"
        /\ ret.kind = "return" =>
              /\ ret.value.balancer_name = "OriginalData"
              /\ Len(ret.value.X_train) + Len(ret.value.X_test) = InputRows

\* fit_resample of a class raised and the call returned.
C4_Witness ==
    /\ IsPrepared
    /\ args.balancer.kind = "class"
    /\ args.library = "fit_resample raises"
    /\ ~HasNaN(locals.before_split.imputed_X)
    /\ Len(ret.value.X_train) >= 2

(***************************************************************************)
(* C5: the fitted scaler depends on the rows of X_train only: two calls    *)
(* whose train rows after the split are the same and whose test rows       *)
(* differ fit the same scaler and return the same scaled X_train; and the  *)
(* fitted scaler is the one that transforms both X_train and X_test.       *)
(***************************************************************************)
C5_ScalerSeesTrainRowsOnly ==
    (IsPrepared /\ prev # NoValue) =>
        /\ locals.split_X_train = prev.locals.split_X_train =>
              /\ locals.scaler = prev.locals.scaler
              /\ ret.value.X_train = prev.ret.value.X_train
        /\ ret.value.X_train = StandardScaler_transform(locals.scaler, locals.split_X_train)
        /\ ret.value.X_test = StandardScaler_transform(locals.scaler, locals.split_X_test)
        /\ \A j \in DOMAIN locals.scaler :
              locals.scaler[j].count <= Len(locals.split_X_train)

\* Two calls with the same train rows and different test rows.
C5_Witness ==
    /\ IsPrepared
    /\ prev # NoValue
    /\ locals.split_X_train = prev.locals.split_X_train
    /\ locals.split_X_test # prev.locals.split_X_test
    /\ ret.value.X_test # prev.ret.value.X_test

(***************************************************************************)
(* C6: the number of rows max_score_for_each returns equals the number of  *)
(* distinct value combinations of the by columns among the rows with       *)
(* Set == set_: one row per group, none missing, none twice, also when      *)
(* several rows of a group tie for the maximum Score.                      *)
(***************************************************************************)
C6_OneRowPerGroup ==
    op = "max_score_for_each" =>
        LET df     == args.df
            inSet  == {i \in DOMAIN df : df[i].Set = args.set_}
            groups == {GroupKey(df[i], args.by) : i \in inSet}
            out    == ret.value
        IN  /\ Len(out) = Cardinality(groups)
            /\ \A k \in groups :
                 Cardinality({g \in DOMAIN out : GroupKey(out[g], args.by) = k}) = 1
            /\ \A g \in DOMAIN out : out[g].Set = args.set_

\* Two rows of one group tie for the maximum, and one row is returned.
C6_Witness ==
    /\ op = "max_score_for_each"
    /\ Len(args.df) = 2
    /\ args.df[1].Set = args.set_
    /\ args.df[2].Set = args.set_
    /\ GroupKey(args.df[1], args.by) = GroupKey(args.df[2], args.by)
    /\ args.df[1].Score = args.df[2].Score
    /\ args.df[1] # args.df[2]
    /\ Len(ret.value) = 1

(***************************************************************************)
(* C7: with return_dict=True get_combinations returns a mapping with one   *)
(* entry per distinct algorithm class of the list the same call builds;    *)
(* each key is the class's __name__ and its value the last combination of  *)
(* that class in list order; earlier ones are overwritten and nothing is   *)
(* raised.                                                                 *)
(***************************************************************************)
C7_DictKeepsLastPerClass ==
    (op = "get_combinations" /\ args.return_dict) =>
        LET list == locals.combinations
            classes == {list[i][1] : i \in DOMAIN list}
        IN  /\ ret.kind = "return"
            /\ DOMAIN ret.value = {c.name : c \in classes}
            /\ Cardinality(DOMAIN ret.value) = Cardinality(classes)
            /\ \A i \in DOMAIN list :
                 (\A j \in DOMAIN list : list[j][1] = list[i][1] => j <= i) =>
                    ret.value[list[i][1].name] = list[i]

\* Two different combinations of one class, and the entry is the second.
C7_Witness ==
    /\ op = "get_combinations"
    /\ args.return_dict
    /\ Len(locals.combinations) = 2
    /\ locals.combinations[1][1] = locals.combinations[2][1]
    /\ locals.combinations[1] # locals.combinations[2]
    /\ ret.value[locals.combinations[2][1].name] = locals.combinations[2]

(***************************************************************************)
(* C8: with balancer=None on a table of n rows, X_train and X_test have n  *)
(* rows together and so have y_train and y_test, every row of the table in *)
(* exactly one of the two parts; with an over-sampling balancer that       *)
(* succeeds the two parts have at least n rows together.                   *)
(***************************************************************************)
C8_SplitKeepsEveryRow ==
    IsPrepared =>
        LET n     == InputRows
            total == Len(ret.value.X_train) + Len(ret.value.X_test)
            before == locals.before_split
        IN  /\ args.balancer = None =>
               /\ total = n
               /\ Len(ret.value.y_train) + Len(ret.value.y_test) = n
               /\ Len(ret.value.X_train) = Len(ret.value.y_train)
               /\ Len(ret.value.X_test) = Len(ret.value.y_test)
               /\ Range(locals.train) \cup Range(locals.test) = 1..n
               /\ Range(locals.train) \cap Range(locals.test) = {}
               /\ Len(locals.train) + Len(locals.test) = n
               /\ \A k \in DOMAIN locals.train :
                     /\ locals.split_X_train[k] = before.imputed_X[locals.train[k]]
                     /\ ret.value.y_train[k] = before.imputed_y[locals.train[k]]
               /\ \A k \in DOMAIN locals.test :
                     /\ locals.split_X_test[k] = before.imputed_X[locals.test[k]]
                     /\ ret.value.y_test[k] = before.imputed_y[locals.test[k]]
            /\ (/\ args.balancer.kind = "class"
                /\ args.balancer.module = "imblearn.over_sampling"
                /\ before.balancer_name # "OriginalData") =>
                  /\ total >= n
                  /\ total = Len(before.X)
                  /\ Len(ret.value.y_train) + Len(ret.value.y_test) = total

\* No balancer, a table of the most rows, and both parts hold rows.
C8_Witness ==
    /\ IsPrepared
    /\ args.balancer = None
    /\ InputRows = MaxDataRows
    /\ Len(ret.value.X_test) >= 2
    /\ Len(ret.value.X_train) >= 2

\* An over-sampler added rows and the parts hold more rows than the table.
C8_OverSampledReached ==
    /\ IsPrepared
    /\ args.balancer.kind = "class"
    /\ locals.before_split.balancer_name = "SMOTE"
    /\ Len(ret.value.X_train) + Len(ret.value.X_test) > InputRows

(***************************************************************************)
(* C9: for each of the nine recognized names get_params returns a          *)
(* non-empty list whose length is the product of the numbers of options    *)
(* declared for the algorithm's hyperparameters; every element is a dict   *)
(* whose keys are exactly the declared hyperparameter names; no two        *)
(* elements are equal.                                                     *)
(***************************************************************************)
C9_ParamsAreTheFullGrid ==
    (op = "get_params" /\ args.algoritm \in Range(MessageNames)) =>
        /\ ret.kind = "return"
        /\ Len(ret.value) >= 1
        /\ Len(ret.value) =
             SeqProd([j \in DOMAIN declared(args.algoritm).options |->
                         Len(declared(args.algoritm).options[j])])
        /\ \A i \in DOMAIN ret.value :
             DOMAIN ret.value[i] = Range(declared(args.algoritm).names)
        /\ Cardinality(Range(ret.value)) = Len(ret.value)

C9_Witness ==
    /\ op = "get_params"
    /\ args.algoritm = "GradientBoostingClassifier"
    /\ ret.kind = "return"
    /\ Len(ret.value) = 2916

(***************************************************************************)
(* C10: for every argument that is not one of the nine recognized names    *)
(* (the default None and other spellings included) get_params raises a     *)
(* ValueError whose message lists the nine valid names, the names that do  *)
(* have a case, and returns nothing.                                       *)
(***************************************************************************)
C10_UnknownNameRaises ==
    (op = "get_params" /\ args.algoritm \notin Range(CaseNames)) =>
        /\ ret.kind = "raise"
        /\ ret.exc = "ValueError"
        /\ Len(ret.listed) = 9
        /\ Range(ret.listed) = Range(CaseNames)

C10_Witness ==
    /\ op = "get_params"
    /\ args.algoritm = NoneArg
    /\ ret.kind = "raise"

(***************************************************************************)
(* C11: prepare_for_algorithm finds a combination only when `algorithm` is *)
(* the __name__ of the resolved classifier class.  Called with a name of   *)
(* the Algorithm column that is not its class's __name__ (NaiveBayes, KNN, *)
(* DecisionTree, Bagging, SVM, RandomForest, XGBoost, GradientBoosting) it *)
(* fails with KeyError at combinations[algorithm], also when the mapping   *)
(* holds a combination of that algorithm's class, and balance_impute_data  *)
(* is not called.                                                          *)
(***************************************************************************)
C11_TableNameIsNotAKey ==
    op = "prepare_for_algorithm" =>
        /\ "combination" \in DOMAIN locals =>
              /\ args.algorithm \in ClassNames
              /\ locals.combination[1].name = args.algorithm
              /\ \E i \in DOMAIN args.performances_df :
                    /\ algorithm_map[args.performances_df[i].Algorithm].name = args.algorithm
                    /\ combination_of(args.performances_df[i]) = locals.combination
        /\ (/\ args.algorithm \in DOMAIN algorithm_map
            /\ algorithm_map[args.algorithm].name # args.algorithm) =>
              /\ ret.kind = "raise"
              /\ ret.exc = "KeyError"
              /\ ret.at = "combinations[algorithm]"
              /\ "combination" \notin DOMAIN locals
              /\ "balance_impute_data" \notin DOMAIN locals
        /\ {k \in DOMAIN algorithm_map : algorithm_map[k].name # k} =
              {"NaiveBayes", "KNN", "DecisionTree", "Bagging", "SVM", "RandomForest",
               "XGBoost", "GradientBoosting"}

\* The table's best row of GradientBoosting gave a combination, kept under
\* GradientBoostingClassifier, and the call with 'GradientBoosting' failed.
C11_Witness ==
    /\ op = "prepare_for_algorithm"
    /\ args.algorithm = "GradientBoosting"
    /\ "GradientBoostingClassifier" \in DOMAIN locals.combinations
    /\ \E i \in DOMAIN args.performances_df :
          /\ args.performances_df[i].Algorithm = "GradientBoosting"
          /\ locals.combinations["GradientBoostingClassifier"] =
                combination_of(args.performances_df[i])
    /\ ret.kind = "raise"
    /\ ret.exc = "KeyError"

\* The same table read with the class's __name__: the data are prepared.
C11_ClassNameFinds ==
    /\ op = "prepare_for_algorithm"
    /\ args.algorithm = "GradientBoostingClassifier"
    /\ ret.kind = "return"

=============================================================================
